---- MODULE Spec2Model ----
(***************************************************************************)
(* A model of the kamiha card tools:                                       *)
(*   update_cards.py  the literal evaluator, reference resolution, card    *)
(*                    normalization, the image                             *)
(*                    downloader and the updater's run (update_data/main); *)
(*   deckmaker.py     the deck list reader and validator.                  *)
(*                                                                         *)
(* Python values are records [kind, obj, val]: kind is the Python type,    *)
(* obj the identity of a mutable object (<<>> for immutable values), val   *)
(* the content.  A string is a sequence of one-character strings, a list a *)
(* sequence of values, a dict a sequence of <<key, value>> pairs.          *)
(***************************************************************************)
EXTENDS Integers, Sequences, FiniteSets, TLC

\* Longest batch of raw records fed to _parse_card_list.
MaxCards == 2

\* Number of cards handed to _download_images.
MaxImages == 3

VARIABLES
    raw_cards,  \* update_cards.py: the list _resolve_references mutates in place
    raw0,       \* the batch as _literal_eval returned it (history, never changed)
    idx,        \* position of the for loop of _resolve_references (1-based)
    pc,         \* where _parse_card_list stands
    err,        \* the exception that ended it, "" when none
    out,        \* the list _parse_card_list returns
    visits      \* how often the loop body ran for each record (history)

cardVars == <<raw_cards, raw0, idx, pc, err, out, visits>>

VARIABLES
    js,                 \* what the fetched script holds: the state of each region
    opts,               \* main's flags: [skip |-> --skip-images, force |-> --force-images]
    upc,                \* where main/update_data stands
    parsed,             \* the regions parsed so far, with what each gave
    catalog_written,    \* CARDS_JSON.write_text has run
    exit_status,        \* what main returned, -1 while it runs
    pos,                \* position of the for loop of _download_images (1-based)
    files,              \* IMAGES_DIR: the content of each card's image file
    files0,             \* IMAGES_DIR as the run found it (history)
    downloaded,         \* _download_images.downloaded
    errors,             \* _download_images.errors
    placeholder_bytes,  \* _download_images.placeholder_bytes
    got,                \* the response each card's image request got (history)
    ph_requests         \* the placeholder requests made, with their outcomes (history)

updVars == <<js, opts, upc, parsed, catalog_written, exit_status, pos, files, files0,
             downloaded, errors, placeholder_bytes, got, ph_requests>>

-----------------------------------------------------------------------------
(* Python values *)

NoObj == <<>>
Absent == [kind |-> "absent", obj |-> NoObj, val |-> <<>>]
PyNone == [kind |-> "null", obj |-> NoObj, val |-> <<>>]
PyInt(n) == [kind |-> "int", obj |-> NoObj, val |-> n]
PyBool(b) == [kind |-> "bool", obj |-> NoObj, val |-> b]
PyStr(s) == [kind |-> "str", obj |-> NoObj, val |-> s]
PyList(o, xs) == [kind |-> "list", obj |-> o, val |-> xs]
PyDict(o, kvs) == [kind |-> "dict", obj |-> o, val |-> kvs]

IsCollection(v) == v.kind \in {"list", "dict"}

\* bool(v)
Truthy(v) ==
    CASE v.kind = "null" -> FALSE
      [] v.kind = "int" -> v.val # 0
      [] v.kind = "bool" -> v.val
      [] OTHER -> v.val # <<>>

\* a == b on the values of the model (identity plays no part)
PyEq(a, b) == a.kind = b.kind /\ a.val = b.val

\* The values held by a collection, in order.
Elems(v) ==
    CASE v.kind = "list" -> v.val
      [] v.kind = "dict" -> [j \in DOMAIN v.val |-> v.val[j][2]]
      [] OTHER -> <<>>

\* The mutable objects reachable from a value.
ObjIds(v) ==
    IF IsCollection(v)
    THEN {v.obj} \cup {Elems(v)[j].obj : j \in {n \in DOMAIN Elems(v) : IsCollection(Elems(v)[n])}}
    ELSE {}

\* A raw record maps every key of Keys to a value, Absent when the dict has no such key.
KeyOrder == <<"id", "refer_id", "cost", "pack", "text", "qa", "tag", "ability">>
Keys == {KeyOrder[n] : n \in DOMAIN KeyOrder}
KeyIdx(k) == CHOOSE n \in DOMAIN KeyOrder : KeyOrder[n] = k

\* card.get(key)
Get(card, key) == IF card[key] = Absent THEN PyNone ELSE card[key]
\* card.get(key, default)
GetOr(card, key, default) == IF card[key] = Absent THEN default ELSE card[key]

\* copy.copy-like aliasing: the value itself, not a copy
AliasCopy(value, fresh) == value

\* deepcopy(value): fresh objects <<fresh[1], fresh[2], 0>> and, for the collections it
\* holds, <<fresh[1], fresh[2], j>>; an immutable value is returned as it is.
DeepCopy(value, fresh) ==
    LET sub(x, j) == IF IsCollection(x) THEN [x EXCEPT !.obj = <<fresh[1], fresh[2], j>>] ELSE x
    IN  CASE value.kind = "list" ->
              [value EXCEPT !.obj = <<fresh[1], fresh[2], 0>>,
                            !.val = [j \in DOMAIN value.val |-> sub(value.val[j], j)]]
          [] value.kind = "dict" ->
              [value EXCEPT !.obj = <<fresh[1], fresh[2], 0>>,
                            !.val = [j \in DOMAIN value.val |->
                                        <<value.val[j][1], sub(value.val[j][2], j)>>]]
          [] OTHER -> value

VARIABLES
    deck_file,      \* deckmaker.py: deck.txt, [exists, lines]
    dpc,            \* where deckmaker's main stands
    deck_ids,       \* what read_deck_ids returned
    deck_cards,     \* validate_ids.cards
    deck_exit,      \* the exit status of deckmaker, -1 while it runs
    output_written  \* grid.save(OUTPUT_FILE) has run

deckVars == <<deck_file, dpc, deck_ids, deck_cards, deck_exit, output_written>>

VARIABLES
    lit_src,    \* the literal handed to _literal_eval, as a structure (history)
    lit_text,   \* _literal_eval.text
    lpc,        \* where _literal_eval stands
    lit_out     \* what _literal_eval returned

litVars == <<lit_src, lit_text, lpc, lit_out>>

-----------------------------------------------------------------------------
(* The updater is not running while _parse_card_list is looked at on its own, and *)
(* the other way round.                                                            *)

UpdateIdle ==
    /\ js = [fetch |-> "ok", pack |-> "ok", abilityLabel |-> "ok", packLinkage |-> "ok",
             cardData |-> "ok"]
    /\ opts = [skip |-> TRUE, force |-> FALSE]
    /\ upc = "idle"
    /\ parsed = <<>>
    /\ catalog_written = FALSE
    /\ exit_status = -1
    /\ pos = 1
    /\ files = <<>>
    /\ files0 = <<>>
    /\ downloaded = 0
    /\ errors = <<>>
    /\ placeholder_bytes = "None"
    /\ got = <<>>
    /\ ph_requests = <<>>

DeckIdle ==
    /\ deck_file = [exists |-> FALSE, lines |-> <<>>]
    /\ dpc = "idle"
    /\ deck_ids = <<>>
    /\ deck_cards = <<>>
    /\ deck_exit = -1
    /\ output_written = FALSE

LiteralIdle ==
    /\ lit_src = [shape |-> "list", keys |-> <<>>, items |-> <<>>]
    /\ lit_text = <<>>
    /\ lpc = "idle"
    /\ lit_out = PyNone

CardsIdle ==
    /\ raw_cards = <<>>
    /\ raw0 = <<>>
    /\ idx = 1
    /\ pc = "idle"
    /\ err = ""
    /\ out = <<>>
    /\ visits = <<>>

-----------------------------------------------------------------------------
(* _resolve_references *)

\* falsy test, as "not card.get(key)" would make it
InheritsFalsy(own) == own = Absent \/ ~Truthy(own)

\* key not in card or card[key] in (None, "", [], {})
Inherits(own) ==
    \/ own = Absent
    \/ PyEq(own, PyNone)
    \/ PyEq(own, PyStr(<<>>))
    \/ PyEq(own, PyList(NoObj, <<>>))
    \/ PyEq(own, PyDict(NoObj, <<>>))

\* by_id.get(reference): the position of the record by_id holds for that id (the last
\* one with it), 0 when by_id has no such key.
ById(cards, reference) ==
    LET hits == {j \in DOMAIN cards : PyEq(cards[j]["id"], reference)}
    IN  IF hits = {} THEN 0 ELSE CHOOSE j \in hits : \A h \in hits : h <= j

\* a resolver that reads the base as the literal evaluator gave it, not as the loop
\* left it
ResolveCardFromParsed(cards, n, b) ==
    [k \in Keys |->
        IF k = "id" \/ raw0[b][k] = Absent THEN cards[n][k]
        ELSE IF Inherits(cards[n][k]) THEN DeepCopy(raw0[b][k], <<n, KeyIdx(k)>>)
        ELSE cards[n][k]]

\* The loop over base.items(): record n after inheriting from record b.
ResolveCard(cards, n, b) ==
    [k \in Keys |->
        IF k = "id" \/ cards[b][k] = Absent THEN cards[n][k]
        ELSE IF Inherits(cards[n][k]) THEN DeepCopy(cards[b][k], <<n, KeyIdx(k)>>)
        ELSE cards[n][k]]

Visit(n) == [visits EXCEPT ![n] = @ + 1]

\* a loop that goes to the base record first, as a resolver chasing the links would
NextIndexChase(cards, n) ==
    LET b == ById(cards, Get(cards[n], "refer_id"))
    IN  IF Get(cards[n], "refer_id") # PyNone /\ b # 0 /\ b <= n THEN b ELSE n + 1

\* for card in cards: the record the loop takes after record n
NextIndex(cards, n) == n + 1

\* reference is None: continue
ResolveSkip ==
    /\ pc = "resolve" /\ idx <= Len(raw_cards)
    /\ Get(raw_cards[idx], "refer_id") = PyNone
    /\ idx' = NextIndex(raw_cards, idx)
    /\ visits' = Visit(idx)
    /\ UNCHANGED <<raw_cards, raw0, pc, err, out>>
    /\ UNCHANGED <<updVars, deckVars, litVars>>

\* not base: raise RuntimeError
ResolveMissing ==
    /\ pc = "resolve" /\ idx <= Len(raw_cards)
    /\ Get(raw_cards[idx], "refer_id") # PyNone
    /\ ById(raw_cards, Get(raw_cards[idx], "refer_id")) = 0
    /\ pc' = "error" /\ err' = "RuntimeError"
    /\ visits' = Visit(idx)
    /\ UNCHANGED <<raw_cards, raw0, idx, out>>
    /\ UNCHANGED <<updVars, deckVars, litVars>>

ResolveInherit ==
    /\ pc = "resolve" /\ idx <= Len(raw_cards)
    /\ Get(raw_cards[idx], "refer_id") # PyNone
    /\ LET b == ById(raw_cards, Get(raw_cards[idx], "refer_id"))
       IN  /\ b # 0
           /\ raw_cards' = [raw_cards EXCEPT ![idx] = ResolveCard(raw_cards, idx, b)]
    /\ idx' = NextIndex(raw_cards, idx)
    /\ visits' = Visit(idx)
    /\ UNCHANGED <<raw0, pc, err, out>>
    /\ UNCHANGED <<updVars, deckVars, litVars>>

\* the for loop is exhausted: _resolve_references returns
ResolveReturn ==
    /\ pc = "resolve" /\ idx > Len(raw_cards)
    /\ pc' = "normalize"
    /\ UNCHANGED <<raw_cards, raw0, idx, err, out, visits>>
    /\ UNCHANGED <<updVars, deckVars, litVars>>

-----------------------------------------------------------------------------
(* _normalize_tags, _normalize_card *)

\* [\s,]: the characters re.split treats as separators
IsSep(c) == c \in {" ", ",", "\t", "\n", "\r"}

\* re.split(r"[\s,]+", raw) with the empty parts dropped: the maximal runs of
\* non-separator characters, in order.
RECURSIVE SplitParts(_, _)
SplitParts(s, cur) ==
    IF s = <<>> THEN (IF cur = <<>> THEN <<>> ELSE <<cur>>)
    ELSE IF IsSep(Head(s))
         THEN (IF cur = <<>> THEN <<>> ELSE <<cur>>) \o SplitParts(Tail(s), <<>>)
         ELSE SplitParts(Tail(s), Append(cur, Head(s)))

\* _normalize_tags(raw), for raw falsy or a string
NormalizeTags(raw, o) ==
    IF ~Truthy(raw) THEN PyList(o, <<>>)
    ELSE LET parts == SplitParts(raw.val, <<>>)
         IN  PyList(o, [j \in DOMAIN parts |-> PyStr(parts[j])])

\* .replace("\r\n", "\n").replace("\r", "\n")
RECURSIVE NormalizeNewlines(_)
NormalizeNewlines(s) ==
    IF s = <<>> THEN <<>>
    ELSE IF Head(s) = "\r"
         THEN IF Len(s) >= 2 /\ s[2] = "\n"
              THEN <<"\n">> \o NormalizeNewlines(Tail(Tail(s)))
              ELSE <<"\n">> \o NormalizeNewlines(Tail(s))
         ELSE <<Head(s)>> \o NormalizeNewlines(Tail(s))

\* (card.get("text") or "")
TextOrEmpty(card) == IF Truthy(Get(card, "text")) THEN Get(card, "text") ELSE PyStr(<<>>)

\* The decimal digits of n >= 0, zero-padded to four: format spec 04d.
DigitChar(d) == <<"0", "1", "2", "3", "4", "5", "6", "7", "8", "9">>[d + 1]
RECURSIVE Digits(_)
Digits(n) == IF n < 10 THEN <<DigitChar(n)>> ELSE Append(Digits(n \div 10), DigitChar(n % 10))
Pad04(n) ==
    LET d == Digits(n)
    IN  [j \in 1..(4 - Len(d)) |-> "0"] \o d

\* (card.get("id") or 0) + 1, for an id that is None or a number
ImageIndex(card) ==
    LET v == Get(card, "id")
    IN  (IF ~Truthy(v) THEN 0 ELSE IF v.kind = "bool" THEN 1 ELSE v.val) + 1

\* f"sample{index:04d}.png"
ImageName(card) ==
    PyStr(<<"s", "a", "m", "p", "l", "e">> \o Pad04(ImageIndex(card)) \o <<".", "p", "n", "g">>)

\* the ability-label mapping handed to _normalize_card: ability_labels.get(code, code)
AbilityLabels == {<<PyStr(<<"F">>), PyStr(<<"f", "o", "o">>)>>}
LabelOf(code) ==
    IF \E e \in AbilityLabels : e[1] = code
    THEN (CHOOSE e \in AbilityLabels : e[1] = code)[2]
    ELSE code

\* card.get("ability", []) or []
AbilityCodesValue(card) ==
    IF Truthy(Get(card, "ability")) THEN Get(card, "ability") ELSE PyList(NoObj, <<>>)

\* What "for code in ability_codes" yields: the items of a list, the characters of a
\* string, the keys of a dict.
Iterate(v) ==
    CASE v.kind = "list" -> v.val
      [] v.kind = "str" -> [j \in DOMAIN v.val |-> PyStr(<<v.val[j]>>)]
      [] v.kind = "dict" -> [j \in DOMAIN v.val |-> PyStr(<<v.val[j][1]>>)]
      [] OTHER -> <<>>

\* The exceptions _normalize_card can end with on the values of the model:
\* str-only methods on a truthy non-string, arithmetic on a non-number id, iteration
\* of a number, a dict lookup with an unhashable key.
NormalizeRaises(card) ==
    \/ Truthy(Get(card, "text")) /\ Get(card, "text").kind # "str"
    \/ Truthy(Get(card, "tag")) /\ Get(card, "tag").kind # "str"
    \/ Truthy(Get(card, "id")) /\ Get(card, "id").kind \notin {"int", "bool"}
    \/ Truthy(Get(card, "ability")) /\ Get(card, "ability").kind \in {"int", "bool"}
    \/ \E j \in DOMAIN Iterate(AbilityCodesValue(card)) :
            IsCollection(Iterate(AbilityCodesValue(card))[j])

\* "packs": card.get("pack", [])
NormPacks(card, e) == GetOr(card, "pack", PyList(<<e, KeyIdx("pack"), 0>>, <<>>))

\* _normalize_card(card, ability_labels) when it returns; e names the call, so that
\* the objects it creates are new.
NormalizeCard(card, e) ==
    LET codes == Iterate(AbilityCodesValue(card))
    IN  [id |-> Get(card, "id"),
         cost |-> Get(card, "cost"),
         packs |-> NormPacks(card, e),
         text |-> PyStr(NormalizeNewlines(TextOrEmpty(card).val)),
         qa |-> DeepCopy(GetOr(card, "qa", PyList(NoObj, <<>>)), <<e, KeyIdx("qa")>>),
         image |-> ImageName(card),
         tags |-> NormalizeTags(Get(card, "tag"), <<e, KeyIdx("tag"), 0>>),
         refer_id |-> card["refer_id"],
         abilities |->
            PyList(<<e, KeyIdx("ability"), 0>>,
                   [j \in DOMAIN codes |->
                        PyDict(<<e, KeyIdx("ability"), j>>,
                               <<<<"code", codes[j]>>, <<"label", LabelOf(codes[j])>>>>)])]

\* a comprehension that keeps only the records without a refer_id
NormalizeListFiltered(cards) ==
    LET keep == SelectSeq(cards, LAMBDA c : Get(c, "refer_id") = PyNone)
    IN  [j \in DOMAIN keep |-> NormalizeCard(keep[j], Len(cards) + j)]

\* [_normalize_card(card, ability_labels) for card in raw_cards] keeping every record
NormalizeList(cards) == [j \in DOMAIN cards |-> NormalizeCard(cards[j], Len(cards) + j)]

\* return [_normalize_card(card, ability_labels) for card in raw_cards]
NormalizeAll ==
    /\ pc = "normalize"
    /\ \A j \in DOMAIN raw_cards : ~NormalizeRaises(raw_cards[j])
    /\ out' = NormalizeList(raw_cards)
    /\ pc' = "done"
    /\ UNCHANGED <<raw_cards, raw0, idx, err, visits>>
    /\ UNCHANGED <<updVars, deckVars, litVars>>

\* a _normalize_card call raises (TypeError, or AttributeError for text): the
\* comprehension is abandoned, nothing is returned
NormalizeRaise ==
    /\ pc = "normalize"
    /\ \E j \in DOMAIN raw_cards : NormalizeRaises(raw_cards[j])
    /\ pc' = "error" /\ err' = "TypeError"
    /\ UNCHANGED <<raw_cards, raw0, idx, out, visits>>
    /\ UNCHANGED <<updVars, deckVars, litVars>>

-----------------------------------------------------------------------------
(* _parse_card_list on a batch: list(_literal_eval(quoted)), _resolve_references, *)
(* the comprehension                                                              *)

\* The values a record's field takes in the batches checked; n is the record's
\* position, which names the objects the literal evaluator created for it.  "pack"
\* ranges over every class of value line 103 tells apart, "tag" over a string and a
\* value _normalize_tags cannot split.
FieldValues(key, n) ==
    IF key = "tag"
    THEN <<Absent, PyStr(<<"a", ",", "b">>), PyList(<<0, n, 0>>, <<PyStr(<<"a">>)>>)>>
    ELSE <<Absent, PyNone, PyInt(0), PyBool(FALSE), PyStr(<<>>),
           PyList(<<0, n, 0>>, <<>>), PyDict(<<0, n, 0>>, <<>>),
           PyList(<<0, n, 0>>, <<PyDict(<<0, n, 1>>, <<<<"q", PyStr(<<"a">>)>>>>)>>)>>

\* refer_id: absent, null, the id of a record of the batch, or an id no record has
ReferValues == {Absent, PyNone} \cup {PyInt(j) : j \in 1..(MaxCards + 1)}

\* A record with the given id, refer_id and one further field
RawRecord(id, refer, key, value) ==
    [k \in Keys |->
        CASE k = "id" -> PyInt(id)
          [] k = "refer_id" -> refer
          [] k = key -> value
          [] OTHER -> Absent]

\* Batches of 1..MaxCards records with ids 1, 2, ... in order, every record carrying
\* the same further field.
InitCards(key) ==
    \E len \in 1..MaxCards :
      \E r \in [1..len -> ReferValues] :
        \E v \in [1..len -> DOMAIN FieldValues(key, 1)] :
            /\ raw_cards = [n \in 1..len |-> RawRecord(n, r[n], key, FieldValues(key, n)[v[n]])]
            /\ raw0 = raw_cards
            /\ idx = 1
            /\ pc = "resolve"
            /\ err = ""
            /\ out = <<>>
            /\ visits = [n \in 1..len |-> 0]
            /\ UpdateIdle
            /\ LiteralIdle
        /\ DeckIdle
            /\ DeckIdle

Init == InitCards("pack") \/ InitCards("tag")

Next ==
    \/ ResolveSkip
    \/ ResolveMissing
    \/ ResolveInherit
    \/ ResolveReturn
    \/ NormalizeAll
    \/ NormalizeRaise

vars == <<cardVars, updVars, deckVars, litVars>>

Spec == Init /\ [][Next]_vars

\* One raw record with pack, tag and ability fields of every shape the literal
\* evaluator can give them, referring to nothing, to itself or to a missing record.
PackValues ==
    {Absent, PyNone, PyList(<<0, 1, 0>>, <<>>), PyList(<<0, 1, 0>>, <<PyInt(0), PyInt(2)>>),
     PyList(<<0, 1, 0>>, <<PyNone, PyInt(1)>>)}
TagValues ==
    {Absent, PyNone, PyStr(<<>>), PyStr(<<" ", ",">>),
     PyStr(<<"a", ",", " ", "b", " ", " ", "c">>), PyList(<<0, 2, 0>>, <<PyStr(<<"a">>)>>)}
AbilityValues ==
    {Absent, PyNone, PyList(<<0, 3, 0>>, <<>>), PyList(<<0, 3, 0>>, <<PyStr(<<"F">>), PyStr(<<"B">>)>>),
     PyList(<<0, 3, 0>>, <<PyNone>>), PyStr(<<"F">>), PyInt(1)}

InitRecord ==
    \E refer \in {Absent, PyInt(1), PyInt(2)}, pack \in PackValues, tag \in TagValues,
       ability \in AbilityValues :
        /\ raw_cards = <<[k \in Keys |->
                            CASE k = "id" -> PyInt(1)
                              [] k = "refer_id" -> refer
                              [] k = "pack" -> pack
                              [] k = "tag" -> tag
                              [] k = "ability" -> ability
                              [] OTHER -> Absent]>>
        /\ raw0 = raw_cards
        /\ idx = 1
        /\ pc = "resolve"
        /\ err = ""
        /\ out = <<>>
        /\ visits = <<0>>
        /\ UpdateIdle
        /\ LiteralIdle
        /\ DeckIdle

\* _parse_card_list on a batch of one record
SpecRecord == InitRecord /\ [][Next]_vars

\* _parse_card_list under the scheduling of a sequential program: a step that can be
\* taken is taken.
FairSpec == InitCards("tag") /\ [][Next]_vars /\ WF_vars(Next)

\* Longest batch handed to _resolve_references on its own.
ChainLen == 3

\* The text of record n in those batches: absent, empty, or a string no other record has.
ChainValues(n) == <<Absent, PyStr(<<>>), PyStr(<<"t", DigitChar(n)>>)>>

\* refer_id in those batches: absent, the id of a record, or an id no record has
ChainRefers == {Absent} \cup {PyInt(j) : j \in 1..(ChainLen + 1)}

\* Batches of 1..ChainLen records with ids 1, 2, ... in order and any links between
\* them: to an earlier record, to a later one, to itself, to none.
InitChain ==
    \E len \in 1..ChainLen :
      \E r \in [1..len -> ChainRefers] :
        \E v \in [1..len -> DOMAIN ChainValues(1)] :
            /\ raw_cards = [n \in 1..len |-> RawRecord(n, r[n], "text", ChainValues(n)[v[n]])]
            /\ raw0 = raw_cards
            /\ idx = 1
            /\ pc = "resolve"
            /\ err = ""
            /\ out = <<>>
            /\ visits = [n \in 1..len |-> 0]
            /\ UpdateIdle
            /\ LiteralIdle
            /\ DeckIdle

\* _resolve_references(raw_cards), up to its return or its exception
NextResolve ==
    \/ ResolveSkip
    \/ ResolveMissing
    \/ ResolveInherit
    \/ ResolveReturn

SpecResolve == InitChain /\ [][NextResolve]_vars

-----------------------------------------------------------------------------
(* main, update_data, _download_images *)

\* The state a region of the script can be in.  cardData can also hold a refer_id
\* that names no record, or a record _normalize_card cannot handle.
RegionStates(region) ==
    IF region = "cardData"
    THEN {"ok", "missing", "malformed", "badref", "illtyped"}
    ELSE {"ok", "missing", "malformed"}

\* a parser that takes every missing region for an empty one
RegionOutcomeLenient(region, state) ==
    CASE state = "ok" -> "value"
      [] state = "missing" -> "empty"
      [] OTHER -> "raise"

\* What the region's parser does: re.search finds nothing -> RuntimeError, but {} for
\* packLinkage (lines 83-84); _literal_eval, _resolve_references or _normalize_card
\* raises; else the parsed value.
RegionOutcome(region, state) ==
    CASE state = "ok" -> "value"
      [] state = "missing" /\ region = "packLinkage" -> "empty"
      [] OTHER -> "raise"

\* One parse call of update_data, lines 241-244: the exception leaves update_data,
\* the value is kept.
ParseStep(region, here, next) ==
    /\ upc = here
    /\ IF RegionOutcome(region, js[region]) = "raise"
       THEN upc' = "raised" /\ parsed' = parsed
       ELSE upc' = next /\ parsed' = Append(parsed, <<region, RegionOutcome(region, js[region])>>)
    /\ UNCHANGED <<js, opts, catalog_written, exit_status, pos, files, files0, downloaded,
                   errors, placeholder_bytes, got, ph_requests>>
    /\ UNCHANGED <<cardVars, deckVars, litVars>>

\* raw_js = _http_get(...).decode("utf-8")
FetchScript ==
    /\ upc = "fetch"
    /\ upc' = IF js.fetch = "ok" THEN "parse_pack" ELSE "raised"
    /\ UNCHANGED <<js, opts, parsed, catalog_written, exit_status, pos, files, files0,
                   downloaded, errors, placeholder_bytes, got, ph_requests>>
    /\ UNCHANGED <<cardVars, deckVars, litVars>>

ParsePackList == ParseStep("pack", "parse_pack", "parse_ability")
ParseAbilityLabels == ParseStep("abilityLabel", "parse_ability", "parse_linkage")
ParsePackLinkage == ParseStep("packLinkage", "parse_linkage", "parse_cards")
ParseCardList == ParseStep("cardData", "parse_cards", IF opts.skip THEN "write" ELSE "images")

\* the test that ignores force
SkipsCardIfExists(exists, force) == exists

\* target.exists() and not force
SkipsCard(exists, force) == exists /\ ~force

\* a cache that is never consulted
NeedsPlaceholderAlways(bytes) == TRUE

\* placeholder_bytes is None
NeedsPlaceholder(bytes) == bytes = "None"

\* a failure that leaves _download_images as an exception
OnFetchFailureRaise(n, file, what) ==
    [errors |-> Append(errors, [file |-> file, what |-> what]), upc |-> "raised", pos |-> n]

\* errors.append(...); continue
OnFetchFailure(n, file, what) ==
    [errors |-> Append(errors, [file |-> file, what |-> what]), upc |-> "images", pos |-> n + 1]

Fetching == upc = "images" /\ pos <= MaxImages /\ ~SkipsCard(files[pos] # "none", opts.force)

\* target.write_bytes(data); downloaded += 1
WriteImage(data) ==
    /\ files' = [files EXCEPT ![pos] = data]
    /\ downloaded' = downloaded + 1
    /\ pos' = pos + 1

\* if target.exists() and not force: continue
ImageSkip ==
    /\ upc = "images" /\ pos <= MaxImages
    /\ SkipsCard(files[pos] # "none", opts.force)
    /\ pos' = pos + 1
    /\ got' = [got EXCEPT ![pos] = "skipped"]
    /\ UNCHANGED <<js, opts, upc, parsed, catalog_written, exit_status, files, files0,
                   downloaded, errors, placeholder_bytes, ph_requests>>
    /\ UNCHANGED <<cardVars, deckVars, litVars>>

\* the image request succeeds
ImageFetched ==
    /\ Fetching
    /\ got' = [got EXCEPT ![pos] = "200"]
    /\ WriteImage("image")
    /\ UNCHANGED <<js, opts, upc, parsed, catalog_written, exit_status, files0, errors,
                   placeholder_bytes, ph_requests>>
    /\ UNCHANGED <<cardVars, deckVars, litVars>>

\* HTTPError 404 with the placeholder in memory
ImageNotFoundCached ==
    /\ Fetching
    /\ ~NeedsPlaceholder(placeholder_bytes)
    /\ got' = [got EXCEPT ![pos] = "404"]
    /\ WriteImage("placeholder")
    /\ UNCHANGED <<js, opts, upc, parsed, catalog_written, exit_status, files0, errors,
                   placeholder_bytes, ph_requests>>
    /\ UNCHANGED <<cardVars, deckVars, litVars>>

\* HTTPError 404 and the placeholder is requested: it arrives, or the request fails
ImageNotFoundFetch ==
    /\ Fetching
    /\ NeedsPlaceholder(placeholder_bytes)
    /\ got' = [got EXCEPT ![pos] = "404"]
    /\ \E answer \in {"ok", "fail"} :
        /\ ph_requests' = Append(ph_requests, [card |-> pos, answer |-> answer])
        /\ IF answer = "ok"
           THEN /\ placeholder_bytes' = "bytes"
                /\ WriteImage("placeholder")
                /\ UNCHANGED <<errors, upc>>
           ELSE /\ errors' = Append(errors, [file |-> 0, what |-> "placeholder"])
                /\ pos' = pos + 1
                /\ UNCHANGED <<placeholder_bytes, files, downloaded, upc>>
    /\ UNCHANGED <<js, opts, parsed, catalog_written, exit_status, files0>>
    /\ UNCHANGED <<cardVars, deckVars, litVars>>

\* HTTPError with another code, or any other exception of the request
ImageFailed ==
    /\ Fetching
    /\ \E what \in {"http", "other"} :
        /\ got' = [got EXCEPT ![pos] = what]
        /\ errors' = OnFetchFailure(pos, pos, what).errors
        /\ upc' = OnFetchFailure(pos, pos, what).upc
        /\ pos' = OnFetchFailure(pos, pos, what).pos
    /\ UNCHANGED <<js, opts, parsed, catalog_written, exit_status, files, files0, downloaded,
                   placeholder_bytes, ph_requests>>
    /\ UNCHANGED <<cardVars, deckVars, litVars>>

\* return downloaded, errors
ImagesReturn ==
    /\ upc = "images" /\ pos > MaxImages
    /\ upc' = "write"
    /\ UNCHANGED <<js, opts, parsed, catalog_written, exit_status, pos, files, files0,
                   downloaded, errors, placeholder_bytes, got, ph_requests>>
    /\ UNCHANGED <<cardVars, deckVars, litVars>>

\* CARDS_JSON.write_text(...); return {...}
WriteCatalog ==
    /\ upc = "write"
    /\ catalog_written' = TRUE
    /\ upc' = "report"
    /\ UNCHANGED <<js, opts, parsed, exit_status, pos, files, files0, downloaded, errors,
                   placeholder_bytes, got, ph_requests>>
    /\ UNCHANGED <<cardVars, deckVars, litVars>>

\* main prints the result and the warnings: return 0
MainReport ==
    /\ upc = "report"
    /\ exit_status' = 0
    /\ upc' = "exit"
    /\ UNCHANGED <<js, opts, parsed, catalog_written, pos, files, files0, downloaded, errors,
                   placeholder_bytes, got, ph_requests>>
    /\ UNCHANGED <<cardVars, deckVars, litVars>>

\* except Exception as error: print, return 1
MainCatch ==
    /\ upc = "raised"
    /\ exit_status' = 1
    /\ upc' = "exit"
    /\ UNCHANGED <<js, opts, parsed, catalog_written, pos, files, files0, downloaded, errors,
                   placeholder_bytes, got, ph_requests>>
    /\ UNCHANGED <<cardVars, deckVars, litVars>>

\* A run of the updater: any script, any flags, any set of image files already there.
InitUpdate ==
    /\ js \in [fetch : {"ok", "fail"}, pack : RegionStates("pack"),
               abilityLabel : RegionStates("abilityLabel"),
               packLinkage : RegionStates("packLinkage"), cardData : RegionStates("cardData")]
    /\ opts \in [skip : BOOLEAN, force : BOOLEAN]
    /\ upc = "fetch"
    /\ parsed = <<>>
    /\ catalog_written = FALSE
    /\ exit_status = -1
    /\ pos = 1
    /\ files0 \in [1..MaxImages -> {"none", "old"}]
    /\ files = files0
    /\ downloaded = 0
    /\ errors = <<>>
    /\ placeholder_bytes = "None"
    /\ got = [n \in 1..MaxImages |-> "none"]
    /\ ph_requests = <<>>
    /\ CardsIdle
    /\ LiteralIdle
    /\ DeckIdle

NextUpdate ==
    \/ FetchScript
    \/ ParsePackList
    \/ ParseAbilityLabels
    \/ ParsePackLinkage
    \/ ParseCardList
    \/ ImageSkip
    \/ ImageFetched
    \/ ImageNotFoundCached
    \/ ImageNotFoundFetch
    \/ ImageFailed
    \/ ImagesReturn
    \/ WriteCatalog
    \/ MainReport
    \/ MainCatch

SpecUpdate == InitUpdate /\ [][NextUpdate]_vars

-----------------------------------------------------------------------------
(* deckmaker.py: read_deck_ids, load_cards, validate_ids, main *)

EXPECTED_CARD_COUNT == 9
TYPE_CHARACTER == 0

\* The catalog load_cards reads: two Character cards and an Ability card.
CatalogCards == <<[id |-> 1, type |-> 0], [id |-> 2, type |-> 0], [id |-> 3, type |-> 1]>>

\* line.strip()
RECURSIVE LStrip(_)
LStrip(s) == IF s # <<>> /\ Head(s) = " " THEN LStrip(Tail(s)) ELSE s
RECURSIVE RStrip(_)
RStrip(s) == IF s # <<>> /\ s[Len(s)] = " " THEN RStrip(SubSeq(s, 1, Len(s) - 1)) ELSE s
Strip(s) == RStrip(LStrip(s))

DigitChars == {"0", "1", "2", "3", "4", "5", "6", "7", "8", "9"}
DigitValue(c) == CHOOSE d \in 0..9 : DigitChar(d) = c

\* int(line) raises ValueError unless the line is a run of digits (a sign and
\* underscores, which int also takes, do not occur in the lines of the model)
IntRaises(s) == s = <<>> \/ \E j \in DOMAIN s : s[j] \notin DigitChars

\* int(line)
RECURSIVE IntOf(_)
IntOf(s) == IF s = <<>> THEN 0 ELSE 10 * IntOf(SubSeq(s, 1, Len(s) - 1)) + DigitValue(s[Len(s)])

\* [line.strip() for line in ...], then [line for line in raw_lines if line]
NonBlankLines(lines) ==
    SelectSeq([j \in DOMAIN lines |-> Strip(lines[j])], LAMBDA l : l # <<>>)

\* a count test that only asks for enough ids
CountAtLeast(n) == n >= EXPECTED_CARD_COUNT

\* len(deck_ids) != EXPECTED_CARD_COUNT is what aborts
CountOk(n) == n = EXPECTED_CARD_COUNT

\* card_map.get(card_id): load_cards keeps the last card with an id; 0 when none
CardMapGet(id) ==
    LET hits == {j \in DOMAIN CatalogCards : CatalogCards[j].id = id}
    IN  IF hits = {} THEN 0 ELSE CHOOSE j \in hits : \A h \in hits : h <= j

\* abort(message): SystemExit(1)
Abort ==
    /\ dpc' = "exit"
    /\ deck_exit' = 1

\* read_deck_ids(DECK_FILE)
ReadDeckIds ==
    /\ dpc = "read"
    /\ LET ids == NonBlankLines(deck_file.lines)
       IN  IF ~deck_file.exists \/ ~CountOk(Len(ids)) \/ \E j \in DOMAIN ids : IntRaises(ids[j])
           THEN Abort /\ UNCHANGED deck_ids
           ELSE /\ deck_ids' = [j \in DOMAIN ids |-> IntOf(ids[j])]
                /\ dpc' = "load"
                /\ UNCHANGED deck_exit
    /\ UNCHANGED <<deck_file, deck_cards, output_written>>
    /\ UNCHANGED <<cardVars, updVars, litVars>>

\* load_cards(DATA_PATH): cards.json is there or not
LoadCards ==
    /\ dpc = "load"
    /\ \E present \in BOOLEAN :
        IF present THEN dpc' = "validate" /\ UNCHANGED deck_exit ELSE Abort
    /\ UNCHANGED <<deck_file, deck_ids, deck_cards, output_written>>
    /\ UNCHANGED <<cardVars, updVars, litVars>>

\* one turn of the loop of validate_ids
ValidateId ==
    /\ dpc = "validate"
    /\ Len(deck_cards) < Len(deck_ids)
    /\ LET card_id == deck_ids[Len(deck_cards) + 1]
           card == CardMapGet(card_id)
       IN  IF card = 0 \/ CatalogCards[card].type # TYPE_CHARACTER
           THEN Abort /\ UNCHANGED deck_cards
           ELSE /\ deck_cards' = Append(deck_cards, CatalogCards[card])
                /\ UNCHANGED <<dpc, deck_exit>>
    /\ UNCHANGED <<deck_file, deck_ids, output_written>>
    /\ UNCHANGED <<cardVars, updVars, litVars>>

\* validate_ids returns; open_images finds every image, or aborts
OpenImages ==
    /\ dpc = "validate"
    /\ Len(deck_cards) = Len(deck_ids)
    /\ \E found \in BOOLEAN :
        IF found THEN dpc' = "compose" /\ UNCHANGED deck_exit ELSE Abort
    /\ UNCHANGED <<deck_file, deck_ids, deck_cards, output_written>>
    /\ UNCHANGED <<cardVars, updVars, litVars>>

\* compose_grid(images); grid.save(OUTPUT_FILE); return 0
ComposeAndSave ==
    /\ dpc = "compose"
    /\ output_written' = TRUE
    /\ dpc' = "exit"
    /\ deck_exit' = 0
    /\ UNCHANGED <<deck_file, deck_ids, deck_cards>>
    /\ UNCHANGED <<cardVars, updVars, litVars>>

\* The lines deck.txt is made of.
DeckLines ==
    {<<>>, <<" ">>, <<"x">>, <<"1", "x">>, <<"1">>, <<" ", "2", " ">>, <<"0", "2">>, <<"3">>,
     <<"4">>}

\* deck.txt missing, or EXPECTED_CARD_COUNT - 1 to EXPECTED_CARD_COUNT + 2 lines naming
\* cards 1 and 2 in turn, with any two of the lines replaced by lines of DeckLines.
InitDeck ==
    /\ \/ deck_file = [exists |-> FALSE, lines |-> <<>>]
       \/ \E len \in (EXPECTED_CARD_COUNT - 1)..(EXPECTED_CARD_COUNT + 2) :
            \E p1, p2 \in 1..len : \E l1, l2 \in DeckLines :
                /\ p1 < p2
                /\ deck_file =
                     [exists |-> TRUE,
                      lines |-> [j \in 1..len |->
                                    IF j = p1 THEN l1
                                    ELSE IF j = p2 THEN l2
                                    ELSE IF j % 2 = 1 THEN <<"1">> ELSE <<"2">>]]
    /\ dpc = "read"
    /\ deck_ids = <<>>
    /\ deck_cards = <<>>
    /\ deck_exit = -1
    /\ output_written = FALSE
    /\ CardsIdle
    /\ LiteralIdle
    /\ UpdateIdle

NextDeck ==
    \/ ReadDeckIds
    \/ LoadCards
    \/ ValidateId
    \/ OpenImages
    \/ ComposeAndSave

SpecDeck == InitDeck /\ [][NextDeck]_vars

-----------------------------------------------------------------------------
(* _literal_eval *)

\* Longest list literal handed to _literal_eval.
MaxItems == 2

\* str.replace(old, new): every occurrence of old, leftmost first, none overlapping
RECURSIVE Replace(_, _, _)
Replace(s, old, new) ==
    IF Len(s) < Len(old) THEN s
    ELSE IF SubSeq(s, 1, Len(old)) = old
         THEN new \o Replace(SubSeq(s, Len(old) + 1, Len(s)), old, new)
         ELSE <<Head(s)>> \o Replace(Tail(s), old, new)

\* ast.literal_eval, on the texts of the model: one scalar, or a list or dict of
\* scalars, written with single-quoted strings without escapes, the names True, False
\* and None, and unsigned decimal numbers.  Tokens first:
Punct == {"[", "]", "{", "}", ",", ":"}
Letters ==
    {"a", "b", "c", "d", "e", "f", "g", "h", "i", "j", "k", "l", "m", "n", "o", "p", "q",
     "r", "s", "t", "u", "v", "w", "x", "y", "z", "A", "B", "C", "D", "E", "F", "G", "H",
     "I", "J", "K", "L", "M", "N", "O", "P", "Q", "R", "S", "T", "U", "V", "W", "X", "Y",
     "Z", "_"}
WordChar(c) == c \in Letters \cup DigitChars

\* The position of the first quote of s, 0 when it has none.
QuoteAt(s) ==
    IF \E j \in DOMAIN s : s[j] = "'"
    THEN CHOOSE j \in DOMAIN s : s[j] = "'" /\ \A h \in 1..(j - 1) : s[h] # "'"
    ELSE 0

\* The length of the name or number s starts with.
WordLen(s) ==
    CHOOSE n \in 0..Len(s) :
        /\ \A j \in 1..n : WordChar(s[j])
        /\ n = Len(s) \/ ~WordChar(s[n + 1])

\* The tokens of a text: [t |-> "op" | "str" | "word" | "bad", s |-> its characters];
\* a string token holds what stands between its quotes, "bad" what cannot be read (an
\* unterminated string, a foreign character).
RECURSIVE Tokens(_)
Tokens(s) ==
    IF s = <<>> THEN <<>>
    ELSE IF Head(s) = " " THEN Tokens(Tail(s))
    ELSE IF Head(s) \in Punct THEN <<[t |-> "op", s |-> <<Head(s)>>]>> \o Tokens(Tail(s))
    ELSE IF Head(s) = "'"
         THEN LET q == QuoteAt(Tail(s))
              IN  IF q = 0 THEN <<[t |-> "bad", s |-> s]>>
                  ELSE <<[t |-> "str", s |-> SubSeq(Tail(s), 1, q - 1)]>>
                           \o Tokens(SubSeq(Tail(s), q + 1, Len(s) - 1))
    ELSE IF WordChar(Head(s))
         THEN <<[t |-> "word", s |-> SubSeq(s, 1, WordLen(s))]>>
                  \o Tokens(SubSeq(s, WordLen(s) + 1, Len(s)))
    ELSE <<[t |-> "bad", s |-> s]>>

IsOp(tok, c) == tok.t = "op" /\ tok.s = <<c>>

\* a decimal number Python accepts: digits, without a leading zero unless all are zero
IsNumber(s) ==
    /\ \A j \in DOMAIN s : s[j] \in DigitChars
    /\ Len(s) = 1 \/ s[1] # "0" \/ \A j \in DOMAIN s : s[j] = "0"

HostNames == {<<"T", "r", "u", "e">>, <<"F", "a", "l", "s", "e">>, <<"N", "o", "n", "e">>}

\* The token is no literal: an operator, an unreadable token, a name other than True,
\* False and None (ValueError: malformed node), a number with a leading zero.
ScalarRaises(tok) ==
    \/ tok.t \in {"op", "bad"}
    \/ tok.t = "word" /\ tok.s \notin HostNames /\ ~IsNumber(tok.s)

ScalarValue(tok) ==
    CASE tok.t = "str" -> PyStr(tok.s)
      [] tok.s = <<"T", "r", "u", "e">> -> PyBool(TRUE)
      [] tok.s = <<"F", "a", "l", "s", "e">> -> PyBool(FALSE)
      [] tok.s = <<"N", "o", "n", "e">> -> PyNone
      [] OTHER -> PyInt(IntOf(tok.s))

\* The tokens between the commas.
RECURSIVE Groups(_, _)
Groups(toks, cur) ==
    IF toks = <<>> THEN <<cur>>
    ELSE IF IsOp(Head(toks), ",") THEN <<cur>> \o Groups(Tail(toks), <<>>)
    ELSE Groups(Tail(toks), Append(cur, Head(toks)))

\* The entries of a display: none when nothing stands between the brackets, and one
\* trailing comma is allowed.
Entries(inner) ==
    LET g == Groups(inner, <<>>)
    IN  IF inner = <<>> THEN <<>>
        ELSE IF Len(g) >= 2 /\ Len(g[Len(g)]) = 0 THEN SubSeq(g, 1, Len(g) - 1)
        ELSE g

ListEntryOk(e) == Len(e) = 1 /\ ~ScalarRaises(e[1])
DictEntryOk(e) ==
    Len(e) = 3 /\ ~ScalarRaises(e[1]) /\ IsOp(e[2], ":") /\ ~ScalarRaises(e[3])

Inner(toks) == SubSeq(toks, 2, Len(toks) - 1)
IsListDisplay(toks) ==
    /\ Len(toks) >= 2 /\ IsOp(toks[1], "[") /\ IsOp(toks[Len(toks)], "]")
    /\ \A j \in DOMAIN Entries(Inner(toks)) : ListEntryOk(Entries(Inner(toks))[j])
IsDictDisplay(toks) ==
    /\ Len(toks) >= 2 /\ IsOp(toks[1], "{") /\ IsOp(toks[Len(toks)], "}")
    /\ \A j \in DOMAIN Entries(Inner(toks)) : DictEntryOk(Entries(Inner(toks))[j])

\* ast.literal_eval(text) raises SyntaxError or ValueError
LiteralRaises(text) ==
    LET toks == Tokens(text)
    IN  ~ \/ Len(toks) = 1 /\ ~ScalarRaises(toks[1])
          \/ IsListDisplay(toks)
          \/ IsDictDisplay(toks)

\* ast.literal_eval(text) when it returns (a dict display here has distinct keys)
LiteralValue(text) ==
    LET toks == Tokens(text)
        es == Entries(Inner(toks))
    IN  IF Len(toks) = 1 THEN ScalarValue(toks[1])
        ELSE IF IsOp(toks[1], "[")
             THEN PyList(<<0, 0, 0>>, [j \in DOMAIN es |-> ScalarValue(es[j][1])])
        ELSE PyDict(<<0, 0, 0>>,
                    [j \in DOMAIN es |-> <<ScalarValue(es[j][1]), ScalarValue(es[j][3])>>])

LiteralStep(here, old, new, next) ==
    /\ lpc = here
    /\ lit_text' = Replace(lit_text, old, new)
    /\ lpc' = next
    /\ UNCHANGED <<lit_src, lit_out>>
    /\ UNCHANGED <<cardVars, updVars, deckVars>>

\* text.replace("true", "True")
ReplaceTrue == LiteralStep("true", <<"t", "r", "u", "e">>, <<"T", "r", "u", "e">>, "false")
\* .replace("false", "False")
ReplaceFalse ==
    LiteralStep("false", <<"f", "a", "l", "s", "e">>, <<"F", "a", "l", "s", "e">>, "null")
\* .replace("null", "None")
ReplaceNull == LiteralStep("null", <<"n", "u", "l", "l">>, <<"N", "o", "n", "e">>, "eval")

\* return ast.literal_eval(text)
LiteralReturn ==
    /\ lpc = "eval"
    /\ ~LiteralRaises(lit_text)
    /\ lit_out' = LiteralValue(lit_text)
    /\ lpc' = "done"
    /\ UNCHANGED <<lit_src, lit_text>>
    /\ UNCHANGED <<cardVars, updVars, deckVars>>

\* ast.literal_eval raises: the exception leaves _literal_eval
LiteralRaise ==
    /\ lpc = "eval"
    /\ LiteralRaises(lit_text)
    /\ lpc' = "error"
    /\ UNCHANGED <<lit_src, lit_text, lit_out>>
    /\ UNCHANGED <<cardVars, updVars, deckVars>>

\* What the script's literals hold, as tokens: the tokens true, false and null,
\* strings with and without these words in them, a number, and a bare name, which no
\* literal may hold.
JsItems ==
    <<[t |-> "word", s |-> <<"t", "r", "u", "e">>],
      [t |-> "word", s |-> <<"f", "a", "l", "s", "e">>],
      [t |-> "word", s |-> <<"n", "u", "l", "l">>],
      [t |-> "str", s |-> <<"n", "u", "l", "l", "i", "f", "y">>],
      [t |-> "str", s |-> <<"u", "n", "t", "r", "u", "e">>],
      [t |-> "str", s |-> <<"f", "a", "l", "s", "e">>],
      [t |-> "str", s |-> <<"a", " ", "b">>],
      [t |-> "word", s |-> <<"7">>],
      [t |-> "word", s |-> <<"x">>]>>

\* The keys of the script's object literals, after _quote_object_keys.
JsKeys == <<<<"k">>, <<"n", "u", "l", "l">>, <<"t", "r", "u", "e", "N", "a", "m", "e">>>>

\* The text of a token, of a list literal, of an object literal with quoted keys.
Render(item) == IF item.t = "str" THEN <<"'">> \o item.s \o <<"'">> ELSE item.s
RECURSIVE Join(_)
Join(parts) ==
    IF parts = <<>> THEN <<>>
    ELSE IF Len(parts) = 1 THEN parts[1]
    ELSE parts[1] \o <<",", " ">> \o Join(Tail(parts))
RenderList(items) == <<"[">> \o Join([j \in DOMAIN items |-> Render(items[j])]) \o <<"]">>
RenderDict(keys, items) ==
    <<"{">> \o Join([j \in DOMAIN items |->
                        <<"'">> \o keys[j] \o <<"'", ":", " ">> \o Render(items[j])])
            \o <<"}">>

\* _literal_eval is handed a list literal of up to MaxItems items or an object
\* literal of one entry.
InitLiteral ==
    /\ \/ \E len \in 0..MaxItems :
            \E f \in [1..len -> DOMAIN JsItems] :
                lit_src = [shape |-> "list", keys |-> <<>>, items |-> [j \in 1..len |-> JsItems[f[j]]]]
       \/ \E key \in DOMAIN JsKeys, i \in DOMAIN JsItems :
            lit_src = [shape |-> "dict", keys |-> <<JsKeys[key]>>, items |-> <<JsItems[i]>>]
    /\ lit_text = IF lit_src.shape = "list" THEN RenderList(lit_src.items)
                  ELSE RenderDict(lit_src.keys, lit_src.items)
    /\ lpc = "true"
    /\ lit_out = PyNone
    /\ CardsIdle
    /\ UpdateIdle
    /\ DeckIdle

NextLiteral ==
    \/ ReplaceTrue
    \/ ReplaceFalse
    \/ ReplaceNull
    \/ LiteralReturn
    \/ LiteralRaise

SpecLiteral == InitLiteral /\ [][NextLiteral]_vars

-----------------------------------------------------------------------------
(* Claims about _resolve_references and _parse_card_list *)

\* A value with the identities of its objects forgotten: what == compares.
Content(v) ==
    [kind |-> v.kind,
     val |-> IF v.kind = "list" THEN [j \in DOMAIN v.val |-> [v.val[j] EXCEPT !.obj = NoObj]]
             ELSE IF v.kind = "dict"
                  THEN [j \in DOMAIN v.val |-> <<v.val[j][1], [v.val[j][2] EXCEPT !.obj = NoObj]>>]
                  ELSE v.val]

\* absent, null, empty string, empty sequence or empty mapping
EmptyOwn(v) ==
    \/ v.kind \in {"absent", "null"}
    \/ v.kind \in {"str", "list", "dict"} /\ v.val = <<>>

\* Record b as it was when the loop reached record n: final if the loop had passed
\* it, else as parsed.
BaseThen(n, b) == IF b < n THEN raw_cards[b] ELSE raw0[b]

\* The records the loop has resolved against an existing base.
Resolved ==
    {n \in DOMAIN raw_cards :
        /\ n < idx
        /\ Get(raw0[n], "refer_id") # PyNone
        /\ ById(raw0, Get(raw0[n], "refer_id")) # 0}

\* C1: once the loop has processed a record R with a non-null refer_id whose base B
\* exists, every field k of B other than id is, on R, B's value of that moment if R's
\* own value was absent, null, "", [] or {}, and R's own value (0 and false
\* included) otherwise; no record's id ever changes.
C1_InheritOnlyWhenEmpty ==
    /\ \A n \in DOMAIN raw_cards : raw_cards[n]["id"] = raw0[n]["id"]
    /\ \A n \in Resolved :
         LET base == BaseThen(n, ById(raw0, Get(raw0[n], "refer_id")))
         IN  \A k \in Keys \ {"id"} :
                base[k] # Absent =>
                    IF EmptyOwn(raw0[n][k])
                    THEN Content(raw_cards[n][k]) = Content(base[k])
                    ELSE raw_cards[n][k] = raw0[n][k]

\* A record with an empty own list has taken the non-empty list of another record.
C1_Witness ==
    \E n \in Resolved :
        /\ ById(raw0, Get(raw0[n], "refer_id")) # n
        /\ raw0[n]["pack"] = PyList(<<0, n, 0>>, <<>>)
        /\ Truthy(raw_cards[n]["pack"])

\* C6 as stated: on every Card produced, tags, abilities and packs are sequences, never
\* null, and hold no null entry.
C6_Original ==
    \A j \in DOMAIN out :
        \A v \in {out[j].tags, out[j].abilities, out[j].packs} :
            /\ v.kind = "list"
            /\ \A n \in DOMAIN v.val : v.val[n] # PyNone

\* What the claim calls the result: one Card per raw record, in order, with its id.
OneCardPerRecord ==
    /\ Len(out) = Len(raw0)
    /\ \A j \in DOMAIN raw0 : out[j].id = raw0[j]["id"]

SchemaTyped(card) ==
    /\ Get(card, "text").kind = "str" \/ ~Truthy(Get(card, "text"))
    /\ Get(card, "tag").kind = "str" \/ ~Truthy(Get(card, "tag"))
    /\ Get(card, "id").kind \in {"int", "null"}
    /\ \/ ~Truthy(Get(card, "ability"))
       \/ /\ Get(card, "ability").kind = "list"
          /\ \A j \in DOMAIN Get(card, "ability").val : Get(card, "ability").val[j].kind = "str"

RawObjs(card) == UNION {ObjIds(card[k]) : k \in Keys}
CardObjs(card) == UNION {ObjIds(card[f]) : f \in DOMAIN card}

\* C9: no collection of one record or Card, at any depth, is the same object as a
\* collection of another one, during resolution and after normalization.
C9_NoSharedObjects ==
    /\ \A m, n \in DOMAIN raw_cards : m # n => RawObjs(raw_cards[m]) \cap RawObjs(raw_cards[n]) = {}
    /\ \A m, n \in DOMAIN out : m # n => CardObjs(out[m]) \cap CardObjs(out[n]) = {}

\* Two Cards hold equal non-empty pack lists, one inherited from the other.
C9_Witness ==
    /\ pc = "done"
    /\ \E m, n \in DOMAIN out :
         /\ m # n
         /\ n \in Resolved
         /\ ById(raw0, Get(raw0[n], "refer_id")) = m
         /\ EmptyOwn(raw0[n]["pack"])
         /\ Truthy(out[m].packs)
         /\ Content(out[n].packs) = Content(out[m].packs)

BaseOf(n) ==
    IF Get(raw0[n], "refer_id") = PyNone THEN 0 ELSE ById(raw0, Get(raw0[n], "refer_id"))

\* C11: when _resolve_references has returned, for every record R whose refer_id names
\* a record B placed before R in the batch, every field other than id that B's final
\* record has is on R too, and R's value equals B's final value wherever R's own
\* value was absent or empty; so R also has what B took from its own earlier base.
C11_InheritsFromEarlierBase ==
    pc = "normalize" =>
        \A n \in DOMAIN raw_cards :
            BaseOf(n) # 0 /\ BaseOf(n) < n =>
                \A k \in Keys \ {"id"} :
                    raw_cards[BaseOf(n)][k] # Absent =>
                        /\ raw_cards[n][k] # Absent
                        /\ EmptyOwn(raw0[n][k]) =>
                                Content(raw_cards[n][k]) = Content(raw_cards[BaseOf(n)][k])

\* A chain of three: record 3 names record 2, which names record 1; only record 1 had
\* a text of its own, and record 3 ends with it.
C11_Witness ==
    /\ pc = "normalize"
    /\ Len(raw0) = 3
    /\ BaseOf(3) = 2 /\ BaseOf(2) = 1
    /\ Truthy(raw0[1]["text"])
    /\ EmptyOwn(raw0[2]["text"]) /\ EmptyOwn(raw0[3]["text"])
    /\ raw_cards[3]["text"] = raw0[1]["text"]

-----------------------------------------------------------------------------
(* Claims about _literal_eval *)

\* The host value a token of the script denotes.
HostOf(item) ==
    CASE item.t = "str" -> PyStr(item.s)
      [] item.s = <<"t", "r", "u", "e">> -> PyBool(TRUE)
      [] item.s = <<"f", "a", "l", "s", "e">> -> PyBool(FALSE)
      [] item.s = <<"n", "u", "l", "l">> -> PyNone
      [] OTHER -> PyInt(IntOf(item.s))

\* C12 as stated: when _literal_eval returns, each token true, false and null of the
\* text has become the host value, and each string literal and each quoted key has
\* become exactly the string written in the text, also when it contains the
\* characters true, false or null.
C12_Original ==
    lpc = "done" =>
        /\ Len(Elems(lit_out)) = Len(lit_src.items)
        /\ \A j \in DOMAIN lit_src.items : Elems(lit_out)[j] = HostOf(lit_src.items[j])
        /\ lit_src.shape = "dict" =>
                \A j \in DOMAIN lit_src.keys : lit_out.val[j][1] = PyStr(lit_src.keys[j])

-----------------------------------------------------------------------------
(* Claims about main, update_data and _download_images *)

\* The fatal conditions the claim names: a required region not found, a malformed
\* literal, a refer_id that names no record of the batch.
FatalScript ==
    \/ js.pack \in {"missing", "malformed"}
    \/ js.abilityLabel \in {"missing", "malformed"}
    \/ js.packLinkage = "malformed"
    \/ js.cardData \in {"missing", "malformed", "badref"}

\* C2: a run on a script with a fatal condition never writes the catalog and ends
\* with a non-zero status; the catalog is written only after pack, abilityLabel,
\* packLinkage and cardData were parsed, in that order; a script whose only defect is
\* a missing packLinkage region gives an empty mapping and a successful run.
C2_NoCatalogOnFatalError ==
    /\ FatalScript => ~catalog_written /\ (upc = "exit" => exit_status = 1)
    /\ catalog_written =>
          /\ Len(parsed) = 4
          /\ <<parsed[1][1], parsed[2][1], parsed[3][1], parsed[4][1]>>
                = <<"pack", "abilityLabel", "packLinkage", "cardData">>
          /\ parsed[4][2] = "value"
    /\ js.packLinkage = "missing" /\ Len(parsed) >= 3 => parsed[3] = <<"packLinkage", "empty">>
    /\ js.packLinkage = "missing" /\ js.fetch = "ok" /\ js.cardData = "ok" /\ ~FatalScript
          /\ upc = "exit" => catalog_written /\ exit_status = 0

\* A run stopped by a missing refer_id target after three regions were parsed.
C2_Witness ==
    /\ upc = "exit" /\ exit_status = 1 /\ ~catalog_written
    /\ js.cardData = "badref" /\ Len(parsed) = 3

\* The cards whose image file the call wrote.
Written == {n \in DOMAIN files : files[n] \in {"image", "placeholder"}}

\* C3 as stated: the placeholder is requested at most once in a call, whatever the
\* answers, and every card whose image request got 404 has the placeholder bytes as
\* its file.
C3_Original ==
    /\ Len(ph_requests) <= 1
    /\ \A n \in DOMAIN got : got[n] = "404" => files[n] = "placeholder"

\* C3 amended: the placeholder is requested again only while no request for it has
\* succeeded, so at most one placeholder request succeeds and none follows it; a
\* card whose image request got 404 has the placeholder bytes as its file unless
\* the placeholder request made for it failed, and then its file is untouched and
\* one placeholder warning stands for it.
C3_PlaceholderFetchedUntilCached ==
    /\ \A j \in DOMAIN ph_requests : j < Len(ph_requests) => ph_requests[j].answer = "fail"
    /\ \A n \in DOMAIN got :
          got[n] = "404" =>
             \/ files[n] = "placeholder"
             \/ /\ [card |-> n, answer |-> "fail"] \in {ph_requests[j] : j \in DOMAIN ph_requests}
                /\ files[n] = files0[n]
    /\ Cardinality({j \in DOMAIN errors : errors[j].what = "placeholder"})
          = Cardinality({j \in DOMAIN ph_requests : ph_requests[j].answer = "fail"})
    /\ placeholder_bytes = "None" <=> \A j \in DOMAIN ph_requests : ph_requests[j].answer = "fail"

\* Two cards got 404 and the placeholder, which was requested once.
C3_Witness ==
    /\ Len(ph_requests) = 1
    /\ Cardinality({n \in DOMAIN got : got[n] = "404" /\ files[n] = "placeholder"}) >= 2

\* The run went through _download_images.
ImagesRan == ~opts.skip /\ Len(parsed) = 4

\* C4: a card whose image request failed other than with 404 has exactly one warning,
\* its file is as it was and it is not counted; the loop goes on to every later card;
\* the run then writes the catalog and ends with status 0; the count is the number of
\* files written.
C4_FailureIsWarningOnly ==
    /\ \A n \in DOMAIN got :
          got[n] \in {"http", "other"} =>
             /\ Cardinality({j \in DOMAIN errors : errors[j].file = n}) = 1
             /\ files[n] = files0[n]
             /\ n \notin Written
    /\ downloaded = Cardinality(Written)
    /\ ImagesRan /\ upc \in {"write", "report", "exit"} => \A n \in DOMAIN got : got[n] # "none"
    /\ ImagesRan /\ upc = "exit" => catalog_written /\ exit_status = 0

\* The first card's request failed, the second was written, the run ended well.
C4_Witness ==
    /\ upc = "exit" /\ exit_status = 0 /\ catalog_written
    /\ got[1] = "http" /\ got[2] = "200"
    /\ Len(errors) = 1 /\ downloaded >= 1

\* C5: without force, a card whose file exists when the loop reaches it is skipped:
\* no request, no placeholder request, the file as it was, not counted, no warning;
\* with force every card the loop reaches is requested.
C5_ExistingFilesSkipped ==
    /\ ~opts.force =>
          \A n \in DOMAIN got :
             got[n] # "none" /\ files0[n] # "none" =>
                /\ got[n] = "skipped"
                /\ files[n] = files0[n]
                /\ n \notin Written
                /\ \A j \in DOMAIN errors : errors[j].file # n
                /\ \A j \in DOMAIN ph_requests : ph_requests[j].card # n
    /\ downloaded = Cardinality(Written)
    /\ opts.force => \A n \in DOMAIN got : got[n] # "skipped"
    /\ upc = "images" => \A n \in DOMAIN got : n < pos => got[n] # "none"

\* With force an existing file was fetched again and replaced.
C5_Witness ==
    /\ opts.force /\ files0[1] = "old" /\ files[1] = "image" /\ got[1] = "200"

-----------------------------------------------------------------------------
(* Claims about deckmaker.py *)

\* The non-blank lines of deck.txt, each as written between its blanks.
DeckEntries == SelectSeq(deck_file.lines, LAMBDA l : \E j \in DOMAIN l : l[j] # " ")
\* a decimal integer: digits and nothing else, blanks around them aside
IsDecimal(l) == Strip(l) # <<>> /\ \A n \in DOMAIN Strip(l) : Strip(l)[n] \in DigitChars

\* A deck list the claim says is acceptable: exactly 9 non-blank lines, each a decimal
\* integer that is the id of a Character card of the catalog.
GoodDeck ==
    /\ deck_file.exists
    /\ Len(DeckEntries) = 9
    /\ \A j \in DOMAIN DeckEntries :
          /\ IsDecimal(DeckEntries[j])
          /\ \E c \in DOMAIN CatalogCards :
                /\ CatalogCards[c].id = IntOf(Strip(DeckEntries[j]))
                /\ CatalogCards[c].type = 0

\* C8: validate_ids returns and the image is written only for a good deck list, and
\* then the validated cards are those of the list, in its order; for any other deck
\* list the run ends with status 1 and the image is never written.
C8_DeckAcceptedOnlyIfValid ==
    /\ dpc = "compose" \/ output_written =>
          /\ GoodDeck
          /\ Len(deck_cards) = 9
          /\ \A j \in DOMAIN deck_cards :
                deck_cards[j].id = IntOf(Strip(DeckEntries[j])) /\ deck_cards[j].type = 0
    /\ ~GoodDeck => ~output_written /\ (dpc = "exit" => deck_exit = 1)
    /\ deck_exit = 0 => output_written

\* A list of ten lines, one of them blank and one padded with blanks, was accepted;
\* the cards came out in the order of the list.
C8_Witness ==
    /\ output_written /\ deck_exit = 0
    /\ Len(deck_file.lines) = 10
    /\ <<" ">> \in {deck_file.lines[j] : j \in DOMAIN deck_file.lines}
    /\ \E j \in DOMAIN deck_cards : j % 2 = 1 /\ deck_cards[j].id = 2

====
